---- MODULE Spec2Model ----
(***************************************************************************)
(* A model of process.js, the Google Photos takeout reconciler: the driver *)
(* sequence, renameRsyncBackups, fixMetaData, mergePhotos and              *)
(* deleteEmptyAlbums, over file trees whose names are character sequences. *)
(*                                                                         *)
(* A string is a sequence of one-character strings.  A file is a record    *)
(* [dir, name, ts]: dir is the sequence of directory names below the root  *)
(* of its tree, name the base name, ts the text of the sidecar's           *)
(* photoTakenTime.timestamp field (only read for .json files).             *)
(***************************************************************************)
EXTENDS Integers, Sequences, FiniteSets, TLC

VARIABLES pc, fsCaseSensitive, zips, takeouts, tmp, dest, destDirs,
          todo, matches, reports, reportedCount, stampIdx, stamped,
          renamed, run, executed, clock

vars == <<pc, fsCaseSensitive, zips, takeouts, tmp, dest, destDirs,
          todo, matches, reports, reportedCount, stampIdx, stamped,
          renamed, run, executed, clock>>

----------------------------------------------------------------------------
(* Strings *)

Min(a, b) == IF a < b THEN a ELSE b

UpperToLower ==
  [c \in {"A","B","C","D","E","F","G","H","I","J","K","L","M","N","O","P",
          "Q","R","S","T","U","V","W","X","Y","Z"} |->
     CASE c = "A" -> "a" [] c = "B" -> "b" [] c = "C" -> "c" [] c = "D" -> "d"
       [] c = "E" -> "e" [] c = "F" -> "f" [] c = "G" -> "g" [] c = "H" -> "h"
       [] c = "I" -> "i" [] c = "J" -> "j" [] c = "K" -> "k" [] c = "L" -> "l"
       [] c = "M" -> "m" [] c = "N" -> "n" [] c = "O" -> "o" [] c = "P" -> "p"
       [] c = "Q" -> "q" [] c = "R" -> "r" [] c = "S" -> "s" [] c = "T" -> "t"
       [] c = "U" -> "u" [] c = "V" -> "v" [] c = "W" -> "w" [] c = "X" -> "x"
       [] c = "Y" -> "y" [] c = "Z" -> "z"]

\* String.prototype.toLowerCase, one character at a time.
ToLower(s) ==
  [i \in 1..Len(s) |-> IF s[i] \in DOMAIN UpperToLower THEN UpperToLower[s[i]] ELSE s[i]]

StartsWith(s, p) == Len(p) <= Len(s) /\ SubSeq(s, 1, Len(p)) = p

EndsWith(s, p) == Len(p) <= Len(s) /\ SubSeq(s, Len(s) - Len(p) + 1, Len(s)) = p

\* The first position at which p occurs in s, 0 when it does not.
IndexOf(s, p) ==
  LET hits == {i \in 1..(Len(s) - Len(p) + 1) :
                 p = <<>> \/ (s[i] = p[1] /\ SubSeq(s, i, i + Len(p) - 1) = p)}
  IN IF hits = {} THEN 0 ELSE CHOOSE i \in hits : \A j \in hits : i <= j

\* The same, ignoring letter case (a regular expression with the i flag);
\* p is given in lower case.
IndexOfCI(s, p) == IndexOf(ToLower(s), p)

Splice(s, i, n, r) == SubSeq(s, 1, i - 1) \o r \o SubSeq(s, i + n, Len(s))

\* s.replace(p, r) with a string pattern: the first occurrence only.
ReplaceFirst(s, p, r) ==
  LET i == IndexOf(s, p) IN IF i = 0 THEN s ELSE Splice(s, i, Len(p), r)

\* s.replace(/p/i, r): the first occurrence, case-insensitively.
ReplaceFirstCI(s, p, r) ==
  LET i == IndexOfCI(s, p) IN IF i = 0 THEN s ELSE Splice(s, i, Len(p), r)

IsDigit(c) == c \in {"0","1","2","3","4","5","6","7","8","9"}

\* The number of digits of s from position i on.
RECURSIVE DigitRun(_, _)
DigitRun(s, i) == IF i <= Len(s) /\ IsDigit(s[i]) THEN 1 + DigitRun(s, i + 1) ELSE 0

\* /\(\d+\)/: the leftmost "(digits)" of s as [at, len], len = 0 for no match.
CounterMatch(s) ==
  LET ok(i) == s[i] = "(" /\ DigitRun(s, i + 1) > 0
                 /\ i + 1 + DigitRun(s, i + 1) <= Len(s)
                 /\ s[i + 1 + DigitRun(s, i + 1)] = ")"
      hits == {i \in 1..Len(s) : ok(i)}
  IN IF hits = {} THEN [at |-> 0, len |-> 0]
     ELSE LET i == CHOOSE i \in hits : \A j \in hits : i <= j
          IN [at |-> i, len |-> DigitRun(s, i + 1) + 2]

\* path.extname of a base name: from its last dot on; empty when there is
\* no dot or the only dot leads the name.
ExtName(n) ==
  LET dots == {i \in 1..Len(n) : n[i] = "."}
  IN IF dots = {} THEN <<>>
     ELSE LET i == CHOOSE i \in dots : \A j \in dots : j <= i
          IN IF i = 1 \/ n = <<".", ".">> THEN <<>> ELSE SubSeq(n, i, Len(n))

\* path.basename(file, ext): the base name without a trailing ext.
BaseName(n, ext) ==
  IF ext # <<>> /\ ext # n /\ EndsWith(n, ext)
  THEN SubSeq(n, 1, Len(n) - Len(ext)) ELSE n

DotJson == <<".", "j", "s", "o", "n">>

----------------------------------------------------------------------------
(* Files and trees *)

Path(f) == [dir |-> f.dir, name |-> f.name]

Paths(tree) == {Path(f) : f \in tree}

\* file.toLowerCase() on a whole path: every directory name and the base name.
LowerPath(p) ==
  [dir |-> [i \in 1..Len(p.dir) |-> ToLower(p.dir[i])], name |-> ToLower(p.name)]

RECURSIVE JoinDir(_)
JoinDir(d) == IF d = <<>> THEN <<>> ELSE <<"/">> \o Head(d) \o JoinDir(Tail(d))

\* The path as one string, as the code tests it: /dir/.../name.
PathStr(p) == JoinDir(p.dir) \o <<"/">> \o p.name

IsPrefix(a, b) == Len(a) <= Len(b) /\ SubSeq(b, 1, Len(a)) = a

Takeout == <<"T","a","k","e","o","u","t">>

GooglePhotos == <<"G","o","o","g","l","e"," ","P","h","o","t","o","s">>

\* tmpPhotosDir below tmpMergeDir.
tmpPhotosDir == <<Takeout, GooglePhotos>>

\* readFilesRecursively(directory): every file below it, at any depth.
readFilesRecursively(tree, directory) == {f \in tree : IsPrefix(directory, f.dir)}

----------------------------------------------------------------------------
(* fixMetaData: the candidate sidecar names of a media file *)

MaxNameLen == 46

\* Truncate gone wrong: substr(0, 47), one character more is kept.
TruncateLate(s) == SubSeq(s, 1, Min(Len(s), MaxNameLen + 1))

\* name.substr(0, 46)
Truncate(s) == SubSeq(s, 1, Min(Len(s), MaxNameLen))

ExtJpg == <<".","j","p","g">>

ExtHeic == <<".","h","e","i","c">>

ExtMov == <<".","m","o","v">>

Edited == <<"-","e","d","i","t","e","d">>

Collage == <<"-","c","o","l","l","a","g","e">>

\* name.replace(/\(\d+\)/, d=> ext + d)
CounterMoved(name, ext) ==
  LET m == CounterMatch(name)
  IN IF m.len = 0 THEN name
     ELSE Splice(name, m.at, m.len, ext \o SubSeq(name, m.at, m.at + m.len - 1))

\* name.replace(/\(\d+\)/, '')
CounterRemoved(name) ==
  LET m == CounterMatch(name)
  IN IF m.len = 0 THEN name ELSE Splice(name, m.at, m.len, <<>>)

\* The five names of the array literal, before aliasing and truncation.
Bases(n) ==
  LET ext  == ExtName(n)
      name == BaseName(n, ext)
  IN << name \o ext,
        ReplaceFirst(name, Edited, <<>>) \o ext,
        ReplaceFirst(name, Collage, <<>>) \o ext,
        CounterMoved(name, ext),
        CounterRemoved(name) \o ext >>

\* The four names the flatMap callback returns for one name.
Aliases(n) ==
  << n,
     ReplaceFirstCI(n, ExtJpg, ExtHeic),
     ReplaceFirstCI(n, ExtHeic, ExtJpg),
     ReplaceFirstCI(n, ExtMov, ExtHeic) >>

\* The aliased names alone, in flatMap order.
RECURSIVE AliasedOnly(_)
AliasedOnly(bases) ==
  IF bases = <<>> THEN <<>> ELSE Tail(Aliases(Head(bases))) \o AliasedOnly(Tail(bases))

\* FlatMapAliases gone wrong: the five names first, their aliases after them.
AliasesLast(bases) == bases \o AliasedOnly(bases)

\* flatMap: the aliases of the first name, then those of the second, ...
RECURSIVE FlatMapAliases(_)
FlatMapAliases(bases) ==
  IF bases = <<>> THEN <<>> ELSE Aliases(Head(bases)) \o FlatMapAliases(Tail(bases))

\* possibleMatches of a media file: paths in the file's own directory.
possibleMatches(file) ==
  LET names == FlatMapAliases(Bases(file.name))
  IN [i \in 1..Len(names) |-> [dir |-> file.dir, name |-> Truncate(names[i]) \o DotJson]]

\* The files fixMetaData keeps: base name not starting with a dot.
VisibleFiles(tree) ==
  {p \in Paths(readFilesRecursively(tree, tmpPhotosDir)) : ~StartsWith(p.name, <<".">>)}

mediaFiles(tree) == {p \in VisibleFiles(tree) : ~EndsWith(PathStr(p), DotJson)}

metaDataFiles(tree) ==
  {LowerPath(p) : p \in {q \in VisibleFiles(tree) : EndsWith(PathStr(q), DotJson)}}

NoMatch == [dir |-> <<>>, name |-> <<>>]

\* possibleMatches.find(file=> metaDataFiles.includes(file.toLowerCase()))
FindMatch(cands, metas) ==
  LET hits == {i \in 1..Len(cands) : LowerPath(cands[i]) \in metas}
  IN IF hits = {} THEN NoMatch
     ELSE cands[CHOOSE i \in hits : \A j \in hits : i <= j]

\* MustExit gone wrong: the run goes on unless nothing at all matched.
MustExitIfNone(nMedia, nMatches) == nMedia > 0 /\ nMatches = 0

\* mediaFiles.length !== matches.length
MustExit(nMedia, nMatches) == nMedia # nMatches

\* mediaFiles.length - matches.length
MissingCount(nMedia, nMatches) == nMedia - nMatches

----------------------------------------------------------------------------
(* fixMetaData: reading a sidecar *)

Undefined == <<"undefined">>

IsSpace(c) == c \in {" ", "\t", "\n"}

RECURSIVE SkipSpaces(_)
SkipSpaces(s) == IF s # <<>> /\ IsSpace(Head(s)) THEN SkipSpaces(Tail(s)) ELSE s

DigitValue(c) ==
  CASE c = "0" -> 0 [] c = "1" -> 1 [] c = "2" -> 2 [] c = "3" -> 3 [] c = "4" -> 4
    [] c = "5" -> 5 [] c = "6" -> 6 [] c = "7" -> 7 [] c = "8" -> 8 [] c = "9" -> 9

RECURSIVE DigitsValue(_, _)
DigitsValue(s, n) == IF n = 0 THEN 0 ELSE 10 * DigitsValue(s, n - 1) + DigitValue(s[n])

\* parseInt(text, 10): leading white space and one sign are skipped, then the
\* longest run of digits is read; no digit there gives NaN.
parseInt(text) ==
  LET t    == SkipSpaces(text)
      neg  == t # <<>> /\ Head(t) = "-"
      u    == IF t # <<>> /\ Head(t) \in {"+", "-"} THEN Tail(t) ELSE t
      n    == DigitRun(u, 1)
  IN IF n = 0 THEN [nan |-> TRUE, val |-> 0]
     ELSE [nan |-> FALSE, val |-> IF neg THEN 0 - DigitsValue(u, n) ELSE DigitsValue(u, n)]

\* fs.readFileSync(path) finds the file of that exact path, or, on a
\* case-insensitive file system, the file whose path differs only in case.
OpenFile(tree, p) ==
  {f \in tree : Path(f) = p \/ (~fsCaseSensitive /\ LowerPath(Path(f)) = LowerPath(p))}

----------------------------------------------------------------------------
(* fixMetaData(tmpPhotosDir) *)

\* The listing is taken and the scan of mediaFiles begins.
FixMetaDataBegin ==
  /\ pc = "fixMetaData"
  /\ todo' = mediaFiles(tmp)
  /\ matches' = <<>>
  /\ pc' = "fixScan"
  /\ executed' = executed \cup {"fixMetaData"}
  /\ UNCHANGED <<fsCaseSensitive, zips, takeouts, tmp, dest, destDirs, reports,
                 reportedCount, stampIdx, stamped, renamed, run, clock>>

\* RestAfter gone wrong: the scan stops at the first miss.
RestAfterStop(rest, file, found) == IF found THEN rest \ {file} ELSE {}

\* The media files still to scan once file has been looked at.
RestAfter(rest, file, found) == rest \ {file}

\* One iteration of the for loop: the readdir order is the system's choice.
FixScan ==
  /\ pc = "fixScan"
  /\ \E file \in todo :
       LET metaDataFile == FindMatch(possibleMatches(file), metaDataFiles(tmp))
       IN /\ IF metaDataFile # NoMatch
             THEN /\ matches' = Append(matches, [file |-> file, metaDataFile |-> metaDataFile])
                  /\ reports' = reports
             ELSE /\ reports' = Append(reports, file)
                  /\ matches' = matches
          /\ todo' = RestAfter(todo, file, metaDataFile # NoMatch)
  /\ UNCHANGED <<pc, fsCaseSensitive, zips, takeouts, tmp, dest, destDirs,
                 reportedCount, stampIdx, stamped, renamed, run, executed, clock>>

\* After the loop: exit(1) when a media file has no match, else start stamping.
FixCheck ==
  /\ pc = "fixScan"
  /\ todo = {}
  /\ LET nMedia == Cardinality(mediaFiles(tmp))
     IN IF MustExit(nMedia, Len(matches))
        THEN /\ reportedCount' = MissingCount(nMedia, Len(matches))
             /\ pc' = "exit1"
             /\ stampIdx' = stampIdx
        ELSE /\ pc' = "fixStamp"
             /\ stampIdx' = 1
             /\ reportedCount' = reportedCount
  /\ UNCHANGED <<fsCaseSensitive, zips, takeouts, tmp, dest, destDirs, todo, matches,
                 reports, stamped, renamed, run, executed, clock>>

\* One iteration of matches.forEach: the sidecar is read and parsed, the date
\* formatted (a RangeError for NaN), and SetFile called.  A failed read, a
\* sidecar without photoTakenTime or a NaN ends the run with an exception.
FixStamp ==
  /\ pc = "fixStamp"
  /\ stampIdx <= Len(matches)
  /\ LET pair == matches[stampIdx]
         open == OpenFile(tmp, pair.metaDataFile)
     IN IF open = {}
        THEN /\ pc' = "crashed"
             /\ UNCHANGED <<stamped, stampIdx>>
        ELSE \E f \in open :
               LET t == parseInt(f.ts)
               IN IF t.nan
                  THEN /\ pc' = "crashed"
                       /\ UNCHANGED <<stamped, stampIdx>>
                  ELSE /\ stamped' = Append(stamped, [file |-> pair.file, time |-> t.val * 1000])
                       /\ stampIdx' = stampIdx + 1
                       /\ pc' = pc
  /\ UNCHANGED <<fsCaseSensitive, zips, takeouts, tmp, dest, destDirs, todo, matches,
                 reports, reportedCount, renamed, run, executed, clock>>

\* fixMetaData returns; its locals are gone.
FixMetaDataEnd ==
  /\ pc = "fixStamp"
  /\ stampIdx > Len(matches)
  /\ pc' = "mergePhotos"
  /\ matches' = <<>>
  /\ stampIdx' = 0
  /\ UNCHANGED <<fsCaseSensitive, zips, takeouts, tmp, dest, destDirs, todo,
                 reports, reportedCount, stamped, renamed, run, executed, clock>>

NextFix == FixMetaDataBegin \/ FixScan \/ FixCheck \/ FixStamp \/ FixMetaDataEnd

----------------------------------------------------------------------------
(* Inputs *)

\* The subsets of U with at most k elements.
RECURSIVE UpTo(_, _)
UpTo(U, k) ==
  IF k = 0 THEN {{}}
  ELSE LET S == UpTo(U, k - 1) IN S \cup {T \cup {x} : T \in S, x \in U}

RECURSIVE DirPrefixes(_)
DirPrefixes(d) == IF d = <<>> THEN {<<>>} ELSE {d} \cup DirPrefixes(SubSeq(d, 1, Len(d) - 1))

DirsOf(tree) == UNION {DirPrefixes(f.dir) : f \in tree}

LowerDir(d) == [i \in 1..Len(d) |-> ToLower(d[i])]

\* A tree a file system can hold: one file per path, and on a
\* case-insensitive file system no two names that differ only in case.
WellFormed(tree, caseSensitive) ==
  /\ \A f, g \in tree : Path(f) = Path(g) => f = g
  /\ caseSensitive \/
       /\ \A f, g \in tree : LowerPath(Path(f)) = LowerPath(Path(g)) => f = g
       /\ \A d, e \in DirsOf(tree) : LowerDir(d) = LowerDir(e) => d = e

Filler == <<"k","l","m","n","o","q","r">>

LongBaseLen == 45

\* A name of 45 characters without dot, dash or parenthesis.
LongBase == [i \in 1..LongBaseLen |-> Filler[((i - 1) % 7) + 1]]

OkTs == <<"1","2">>

InAlbum(album, name, ts) == [dir |-> tmpPhotosDir \o <<album>>, name |-> name, ts |-> ts]

\* Short names: one for each rule and alias of the candidate list.
ShortMediaNames ==
  { <<"x">> \o ExtJpg,
    <<"x">> \o Edited \o ExtJpg,
    <<"x">> \o Collage \o ExtJpg,
    <<"x","(","1",")">> \o ExtJpg,
    <<"X",".","J","P","G">>,
    <<"x">> \o ExtMov }

ShortSidecarStems ==
  { <<"x">> \o ExtJpg,
    <<"x">> \o ExtHeic,
    <<"x">>,
    <<"x">> \o Edited \o ExtHeic,
    <<"x">> \o ExtJpg \o <<"(","1",")">>,
    <<"X",".","J","P","G">> }

\* Album "A" with short names, and one sidecar in an album "a".
ShortUniverse ==
  {InAlbum(<<"A">>, n, OkTs) : n \in ShortMediaNames}
    \cup {InAlbum(<<"A">>, n \o DotJson, OkTs) : n \in ShortSidecarStems}
    \cup {InAlbum(<<"a">>, <<"x">> \o ExtJpg \o DotJson, OkTs)}

\* Names of more than 46 characters, with and without extension.
LongMediaNames ==
  { LongBase \o <<"s">> \o ExtJpg,
    LongBase \o Edited }

\* Sidecars named by the 45, 46 and 47 character prefixes and by the whole
\* of the first long name, and by the 46 character prefix of the second.
LongSidecarStems ==
  { SubSeq(LongBase \o <<"s">> \o ExtJpg, 1, MaxNameLen - 1),
    SubSeq(LongBase \o <<"s">> \o ExtJpg, 1, MaxNameLen),
    SubSeq(LongBase \o <<"s">> \o ExtJpg, 1, MaxNameLen + 1),
    LongBase \o <<"s">> \o ExtJpg,
    SubSeq(LongBase \o Edited, 1, MaxNameLen) }

LongUniverse ==
  {InAlbum(<<"A">>, n, OkTs) : n \in LongMediaNames}
    \cup {InAlbum(<<"A">>, n \o DotJson, OkTs) : n \in LongSidecarStems}

MaxMatchFiles == 3

TsTexts == { OkTs, <<"1","x">>, <<"x">>, Undefined }

StampUniverse ==
  {InAlbum(<<"A">>, <<c>> \o ExtJpg, OkTs) : c \in {"p", "q"}}
    \cup {InAlbum(<<"A">>, <<c>> \o ExtJpg \o DotJson, t) : c \in {"p", "q"}, t \in TsTexts}

MaxStampFiles == 4

InitMatch ==
  /\ pc = "fixMetaData"
  /\ fsCaseSensitive \in BOOLEAN
  /\ tmp \in UpTo(ShortUniverse, MaxMatchFiles) \cup UpTo(LongUniverse, MaxMatchFiles)
                \cup UpTo(StampUniverse, MaxStampFiles)
  /\ WellFormed(tmp, fsCaseSensitive)
  /\ zips = <<>> /\ takeouts = <<>> /\ dest = {} /\ destDirs = {<<>>}
  /\ todo = {} /\ matches = <<>> /\ reports = <<>> /\ reportedCount = 0
  /\ stampIdx = 0 /\ stamped = <<>> /\ renamed = 0 /\ run = 1 /\ executed = {}
  /\ clock = 0

MatchSpec == InitMatch /\ [][NextFix]_vars

----------------------------------------------------------------------------
(* renameRsyncBackups *)

Duplicate == <<"d","u","p","l","i","c","a","t","e">>

RECURSIVE DigitsBefore(_, _)
\* The number of digits of s that end at position e.
DigitsBefore(s, e) == IF e >= 1 /\ IsDigit(s[e]) THEN 1 + DigitsBefore(s, e - 1) ELSE 0

\* /-[0-9]+-duplicate$/ on s: the number of digits of the match, 0 for none.
MarkerDigits(s) ==
  LET tail == <<"-">> \o Duplicate
      e    == Len(s) - Len(tail)
      k    == DigitsBefore(s, e)
  IN IF EndsWith(s, tail) /\ k > 0 /\ e - k >= 1 /\ s[e - k] = "-" THEN k ELSE 0

\* regx.test(file)
IsBackup(p) == MarkerDigits(PathStr(p)) > 0

\* `duplicate-${timestamp}-${name.replace(regx, '')}`
NewName(name) ==
  LET k         == MarkerDigits(name)
      e         == Len(name) - Len(Duplicate) - 1
      timestamp == SubSeq(name, e - k + 1, e)
  IN Duplicate \o <<"-">> \o timestamp \o <<"-">> \o SubSeq(name, 1, e - k - 1)

\* fs.renameSync(from, to): the file moves and replaces what was at to.
RenameFile(tree, from, to) ==
  LET moved == {f \in tree : Path(f) = from}
  IN {f \in tree : Path(f) # from /\ Path(f) # to}
       \cup {[f EXCEPT !.dir = to.dir, !.name = to.name] : f \in moved}

RECURSIVE RenameEach(_, _)
\* backups.forEach: the renames one after the other.
RenameEach(tree, backups) ==
  IF backups = <<>> THEN tree
  ELSE LET p == Head(backups)
       IN RenameEach(RenameFile(tree, p, [dir |-> p.dir, name |-> NewName(p.name)]),
                     Tail(backups))

\* The orders in which a listing can give the paths of S.
RECURSIVE Orders(_)
Orders(S) ==
  IF S = {} THEN {<<>>} ELSE UNION {{<<x>> \o o : o \in Orders(S \ {x})} : x \in S}

\* The backups of a tree below directory.
Backups(tree, directory) == {p \in Paths(readFilesRecursively(tree, directory)) : IsBackup(p)}

----------------------------------------------------------------------------
(* rsync -av --remove-source-files --exclude=".*" --backup --suffix=...  *)

DigitChars == <<"0","1","2","3","4","5","6","7","8","9">>

\* `-${Date.now()}-duplicate`: the clock only moves forward, so every call
\* has a later time than the one before and than any name already on disk.
Suffix(now) == <<"-", "9", DigitChars[now + 1], "-">> \o Duplicate

Hidden(n) == StartsWith(n, <<".">>)

\* The files of tree below directory that rsync transfers, with their
\* paths taken relative to directory and put below target.
Incoming(tree, directory, target) ==
  LET rel(f) == SubSeq(f.dir, Len(directory) + 1, Len(f.dir))
  IN {[f EXCEPT !.dir = target \o rel(f)] :
        f \in {g \in readFilesRecursively(tree, directory) :
                 /\ ~Hidden(g.name)
                 /\ \A i \in 1..Len(rel(g)) : ~Hidden(rel(g)[i])}}

\* The result in the destination tree: a file that is already there and is
\* not taken for up to date (skip) is kept under the backup suffix.
Rsync(incoming, destTree, skip, now) ==
  LET sent    == {f \in incoming : Path(f) \notin skip}
      clashes == {g \in destTree : Path(g) \in Paths(sent)}
  IN (destTree \ clashes)
       \cup {[g EXCEPT !.name = g.name \o Suffix(now)] : g \in clashes}
       \cup sent

Clashes(incoming, destTree) == Paths(incoming) \cap Paths(destTree)

----------------------------------------------------------------------------
(* The driver sequence *)

Log(stage) == executed' = executed \cup {stage}

checkTools ==
  /\ pc = "checkTools"
  /\ \E installed \in BOOLEAN : pc' = IF installed THEN "createPhotosDir" ELSE "exit1"
  /\ Log("checkTools")
  /\ UNCHANGED <<fsCaseSensitive, zips, takeouts, tmp, dest, destDirs, todo, matches,
                 reports, reportedCount, stampIdx, stamped, renamed, run, clock>>

createPhotosDir ==
  /\ pc = "createPhotosDir"
  /\ destDirs' = destDirs \cup {<<>>}
  /\ pc' = "extractTakeouts"
  /\ Log("createPhotosDir")
  /\ UNCHANGED <<fsCaseSensitive, zips, takeouts, tmp, dest, todo, matches,
                 reports, reportedCount, stampIdx, stamped, renamed, run, clock>>

\* Every archive becomes a takeout directory and is unlinked.
extractTakeouts ==
  /\ pc = "extractTakeouts"
  /\ takeouts' = takeouts \o zips
  /\ zips' = <<>>
  /\ pc' = "mergeTakeouts"
  /\ Log("extractTakeouts")
  /\ UNCHANGED <<fsCaseSensitive, tmp, dest, destDirs, todo, matches,
                 reports, reportedCount, stampIdx, stamped, renamed, run, clock>>

\* One iteration of takeouts.forEach: rsync into tmpMergeDir, then rm -rf.
mergeTakeout ==
  /\ pc = "mergeTakeouts"
  /\ takeouts # <<>>
  /\ LET incoming == Incoming(Head(takeouts), <<>>, <<>>)
     IN \E skip \in SUBSET Clashes(incoming, tmp) :
          tmp' = Rsync(incoming, tmp, skip, clock)
  /\ clock' = clock + 1
  /\ takeouts' = Tail(takeouts)
  /\ Log("mergeTakeouts")
  /\ UNCHANGED <<pc, fsCaseSensitive, zips, dest, destDirs, todo, matches,
                 reports, reportedCount, stampIdx, stamped, renamed, run>>

mergeTakeoutsEnd ==
  /\ pc = "mergeTakeouts"
  /\ takeouts = <<>>
  /\ pc' = "renameTmp"
  /\ Log("mergeTakeouts")
  /\ UNCHANGED <<fsCaseSensitive, zips, takeouts, tmp, dest, destDirs, todo, matches,
                 reports, reportedCount, stampIdx, stamped, renamed, run, clock>>

\* renameRsyncBackups(tmpMergeDir)
renameRsyncBackupsTmp ==
  /\ pc = "renameTmp"
  /\ \E order \in Orders(Backups(tmp, <<>>)) :
       /\ tmp' = RenameEach(tmp, order)
       /\ renamed' = renamed + Len(order)
  /\ pc' = "fixMetaData"
  /\ Log("renameTmp")
  /\ UNCHANGED <<fsCaseSensitive, zips, takeouts, dest, destDirs, todo, matches,
                 reports, reportedCount, stampIdx, stamped, run, clock>>

\* The directories directly below tmpPhotosDir.
Albums(tree) ==
  {f.dir[Len(tmpPhotosDir) + 1] :
     f \in {g \in readFilesRecursively(tree, tmpPhotosDir) : Len(g.dir) > Len(tmpPhotosDir)}}

\* One iteration of albums.forEach: rsync the album into photosDir, rm -rf it.
mergePhotos ==
  /\ pc = "mergePhotos"
  /\ \E album \in Albums(tmp) :
       LET directory == tmpPhotosDir \o <<album>>
           incoming  == Incoming(tmp, directory, <<album>>)
       IN /\ \E skip \in SUBSET Clashes(incoming, dest) :
               dest' = Rsync(incoming, dest, skip, clock)
          /\ destDirs' = destDirs \cup {<<album>>} \cup DirsOf(incoming)
          /\ tmp' = tmp \ readFilesRecursively(tmp, directory)
  /\ clock' = clock + 1
  /\ Log("mergePhotos")
  /\ UNCHANGED <<pc, fsCaseSensitive, zips, takeouts, todo, matches,
                 reports, reportedCount, stampIdx, stamped, renamed, run>>

mergePhotosEnd ==
  /\ pc = "mergePhotos"
  /\ Albums(tmp) = {}
  /\ pc' = "renameDest"
  /\ Log("mergePhotos")
  /\ UNCHANGED <<fsCaseSensitive, zips, takeouts, tmp, dest, destDirs, todo, matches,
                 reports, reportedCount, stampIdx, stamped, renamed, run, clock>>

\* renameRsyncBackups(photosDir)
renameRsyncBackupsDest ==
  /\ pc = "renameDest"
  /\ \E order \in Orders(Backups(dest, <<>>)) :
       /\ dest' = RenameEach(dest, order)
       /\ renamed' = renamed + Len(order)
  /\ pc' = "deleteEmptyAlbums"
  /\ Log("renameDest")
  /\ UNCHANGED <<fsCaseSensitive, zips, takeouts, tmp, destDirs, todo, matches,
                 reports, reportedCount, stampIdx, stamped, run, clock>>

\* fs.readdirSync(directory): the names of the files and of the directories
\* directly in it.
ReadDir(files, dirs, directory) ==
  {f.name : f \in {g \in files : g.dir = directory}}
    \cup {d[Len(d)] : d \in {e \in dirs : Len(e) = Len(directory) + 1 /\ IsPrefix(directory, e)}}

\* The filter of deleteEmptyAlbums: what counts as content of an album.
Counted(names) == {n \in names : ~StartsWith(n, <<".">>) /\ ~EndsWith(n, DotJson)}

\* The albums deleteEmptyAlbums removes.
EmptyAlbums(files, dirs) ==
  {d \in dirs : Len(d) = 1 /\ Counted(ReadDir(files, dirs, d)) = {}}

deleteEmptyAlbums ==
  /\ pc = "deleteEmptyAlbums"
  /\ LET gone == EmptyAlbums(dest, destDirs)
     IN /\ dest' = {f \in dest : \A d \in gone : ~IsPrefix(d, f.dir)}
        /\ destDirs' = {e \in destDirs : \A d \in gone : ~IsPrefix(d, e)}
  /\ pc' = "deleteTmpMergeDir"
  /\ Log("deleteEmptyAlbums")
  /\ UNCHANGED <<fsCaseSensitive, zips, takeouts, tmp, todo, matches,
                 reports, reportedCount, stampIdx, stamped, renamed, run, clock>>

deleteTmpMergeDir ==
  /\ pc = "deleteTmpMergeDir"
  /\ tmp' = {}
  /\ pc' = "stampDate"
  /\ Log("deleteTmpMergeDir")
  /\ UNCHANGED <<fsCaseSensitive, zips, takeouts, dest, destDirs, todo, matches,
                 reports, reportedCount, stampIdx, stamped, renamed, run, clock>>

\* last-takeout.txt is written and the process ends with status 0.
stampDate ==
  /\ pc = "stampDate"
  /\ pc' = "done"
  /\ Log("stampDate")
  /\ UNCHANGED <<fsCaseSensitive, zips, takeouts, tmp, dest, destDirs, todo, matches,
                 reports, reportedCount, stampIdx, stamped, renamed, run, clock>>

MaxRuns == 2

\* The script is started again in the same working directory.
StartAgain ==
  /\ pc = "done"
  /\ run < MaxRuns
  /\ run' = run + 1
  /\ pc' = "checkTools"
  /\ executed' = {}
  /\ reports' = <<>> /\ reportedCount' = 0 /\ stamped' = <<>> /\ renamed' = 0
  /\ UNCHANGED <<fsCaseSensitive, zips, takeouts, tmp, dest, destDirs, todo, matches,
                 stampIdx, clock>>

Next ==
  \/ checkTools \/ createPhotosDir \/ extractTakeouts
  \/ mergeTakeout \/ mergeTakeoutsEnd
  \/ renameRsyncBackupsTmp
  \/ FixMetaDataBegin \/ FixScan \/ FixCheck \/ FixStamp \/ FixMetaDataEnd
  \/ mergePhotos \/ mergePhotosEnd
  \/ renameRsyncBackupsDest
  \/ deleteEmptyAlbums \/ deleteTmpMergeDir \/ stampDate
  \/ StartAgain

----------------------------------------------------------------------------
(* The inputs of the whole run *)

Marker5 == <<"-","5","-">> \o Duplicate

Marker6 == <<"-","6","-">> \o Duplicate

TakeoutNames ==
  { <<"p">> \o ExtJpg,
    <<"p">> \o ExtJpg \o DotJson,
    <<"r">> \o ExtJpg,
    <<"n">> \o DotJson \o Marker5 }

TakeoutUniverse == {InAlbum(<<"a">>, n, OkTs) : n \in TakeoutNames}

InLibrary(dir, name) == [dir |-> dir, name |-> name, ts |-> OkTs]

LibraryUniverse ==
  { InLibrary(<< <<"a">> >>, <<"p">> \o ExtJpg),
    InLibrary(<< <<"a">> >>, <<"p">> \o ExtJpg \o DotJson),
    InLibrary(<< <<"a">> >>, <<"n">> \o DotJson \o Marker5 \o Marker6),
    InLibrary(<< <<"b">> >>, <<".","h">>),
    InLibrary(<< <<"b">> >>, <<"m">> \o DotJson),
    InLibrary(<< <<"c">>, <<"s">> >>, <<"p">> \o ExtJpg) }

\* Directories of the library that may exist without a file in them.
LibraryDirs == { << <<"d">> >>, << <<"e">>, <<"s">> >> }

MaxFiles == 3

Init ==
  /\ pc = "checkTools"
  /\ fsCaseSensitive = FALSE
  /\ \E z \in UpTo(TakeoutUniverse, MaxFiles), t \in UpTo(TakeoutUniverse, MaxFiles),
        d \in UpTo(LibraryUniverse, MaxFiles), e \in UpTo(LibraryDirs, MaxFiles) :
       /\ Cardinality(z) + Cardinality(t) + Cardinality(d) + Cardinality(e) <= MaxFiles
       /\ zips = IF z = {} THEN <<>> ELSE <<z>>
       /\ takeouts = IF t = {} THEN <<>> ELSE <<t>>
       /\ dest = d
       /\ destDirs \in (IF d = {} /\ e = {} THEN {{}} ELSE {})
                         \cup {DirsOf(d) \cup UNION {DirPrefixes(x) : x \in e}}
  /\ tmp = {}
  /\ todo = {} /\ matches = <<>> /\ reports = <<>> /\ reportedCount = 0
  /\ stampIdx = 0 /\ stamped = <<>> /\ renamed = 0 /\ run = 1 /\ executed = {}
  /\ clock = 0

Spec == Init /\ [][Next]_vars

----------------------------------------------------------------------------
(* Properties *)

Range(q) == {q[i] : i \in 1..Len(q)}

\* Whether a sidecar of that path, up to letter case, is in the listing.
Exists(c, tree) == LowerPath(c) \in metaDataFiles(tree)

\* The media files of the tree none of whose candidates exists.
Unmatched(tree) ==
  LET metas == metaDataFiles(tree)
  IN {p \in mediaFiles(tree) :
        LET c == possibleMatches(p)
        IN \A i \in 1..Len(c) : LowerPath(c[i]) \notin metas}

LaterStages == {"mergePhotos", "renameDest", "deleteEmptyAlbums", "deleteTmpMergeDir", "stampDate"}

\* The part of a sidecar name before ".json".
Stem(n) == SubSeq(n, 1, Len(n) - Len(DotJson))

\* The candidate of rule r (1..5) under alias a (1: none, 2: .jpg to .heic,
\* 3: .heic to .jpg, 4: .mov to .heic).
Cand(file, r, a) ==
  [dir |-> file.dir, name |-> Truncate(Aliases(Bases(file.name)[r])[a]) \o DotJson]

HasCounter(n) == CounterMatch(BaseName(n, ExtName(n))).len > 0

\* The un-aliased candidates of rules 1 to 5 in rule order; rules 4 and 5
\* are those of a name with a counter.
Unaliased(file) ==
  [r \in 1..(IF HasCounter(file.name) THEN 5 ELSE 3) |-> Cand(file, r, 1)]

\* C1: when a media file of the stage-1 tree has no existing candidate
\* sidecar, the run gets no further than the scan and exit(1): the exit comes
\* after the whole scan, SetFile is never called and no later stage runs.
C1_FailClosed ==
  ("fixMetaData" \in executed /\ Unmatched(tmp) # {}) =>
     /\ pc \in {"fixScan", "exit1"}
     /\ (pc = "exit1" => todo = {})
     /\ stamped = <<>>
     /\ executed \cap LaterStages = {}

C1_Witness ==
  /\ pc = "exit1" /\ "fixMetaData" \in executed
  /\ Unmatched(tmp) # {} /\ matches # <<>>

\* C2 as claimed: whenever an un-aliased candidate of rules 1-5 exists, the
\* match is the un-aliased candidate of the earliest such rule.
C2_UnaliasedFirst ==
  \A i \in 1..Len(matches) :
    LET u    == Unaliased(matches[i].file)
        hits == {r \in 1..Len(u) : Exists(u[r], tmp)}
    IN hits # {} => matches[i].metaDataFile = u[CHOOSE r \in hits : \A q \in hits : r <= q]

\* C2 as amended: the match is the first existing candidate in the order
\* rule 1, its three aliases, rule 2, its three aliases, ... rule 5, its
\* three aliases.
C2_GeneratedOrder ==
  \A i \in 1..Len(matches) :
    \E r \in 1..5, a \in 1..4 :
      /\ matches[i].metaDataFile = Cand(matches[i].file, r, a)
      /\ Exists(Cand(matches[i].file, r, a), tmp)
      /\ \A q \in 1..5, b \in 1..4 :
           (q < r \/ (q = r /\ b < a)) => ~Exists(Cand(matches[i].file, q, b), tmp)

\* An aliased candidate of rule 1 is chosen although the un-aliased candidate
\* of rule 2 exists.
C2_Witness ==
  \E i \in 1..Len(matches) :
    /\ matches[i].metaDataFile = Cand(matches[i].file, 1, 2)
    /\ ~Exists(Cand(matches[i].file, 1, 1), tmp)
    /\ Exists(Cand(matches[i].file, 2, 1), tmp)

\* C3 as claimed: a media file with a name of more than 46 characters never
\* matches the sidecar named by the 45-character prefix, the 47-character
\* prefix or the whole of its name.
C3_Only46 ==
  \A i \in 1..Len(matches) :
    LET n == matches[i].file.name
    IN Len(n) > MaxNameLen =>
         Stem(matches[i].metaDataFile.name) \notin
            {SubSeq(n, 1, MaxNameLen - 1), SubSeq(n, 1, MaxNameLen + 1), n}

\* C3 as amended: for a name of more than 46 characters every candidate has
\* at most 46 characters before ".json", the sidecar named by the
\* 46-character prefix is the match whenever it exists, and no match is named
\* by the 47-character prefix or the whole name.
C3_Truncated46 ==
  /\ \A p \in mediaFiles(tmp) :
       Len(p.name) > MaxNameLen =>
         LET c == possibleMatches(p)
         IN \A i \in 1..Len(c) : Len(Stem(c[i].name)) <= MaxNameLen
  /\ \A i \in 1..Len(matches) :
       LET n == matches[i].file.name
       IN Len(n) > MaxNameLen =>
            /\ Stem(matches[i].metaDataFile.name) \notin {SubSeq(n, 1, MaxNameLen + 1), n}
            /\ Exists([dir |-> matches[i].file.dir,
                       name |-> SubSeq(n, 1, MaxNameLen) \o DotJson], tmp)
                 => Stem(matches[i].metaDataFile.name) = SubSeq(n, 1, MaxNameLen)
  /\ \A i \in 1..Len(reports) :
       Len(reports[i].name) > MaxNameLen =>
         ~Exists([dir |-> reports[i].dir,
                  name |-> SubSeq(reports[i].name, 1, MaxNameLen) \o DotJson], tmp)

\* A long-named media file is matched with the sidecar of its 46-character
\* prefix while the sidecars of its 47-character prefix and of its whole name
\* are there too.
C3_Witness ==
  \E i \in 1..Len(matches) :
    LET f == matches[i].file
    IN /\ Len(f.name) > MaxNameLen
       /\ Stem(matches[i].metaDataFile.name) = SubSeq(f.name, 1, MaxNameLen)
       /\ \E g \in tmp : g.name \in {SubSeq(f.name, 1, MaxNameLen + 1) \o DotJson,
                                      f.name \o DotJson}

\* C4: after an invocation of renameRsyncBackups no file of the tree matches
\* the marker pattern, so a second invocation has nothing to rename.
C4_NoBackupLeft ==
  /\ pc = "fixMetaData" => Backups(tmp, <<>>) = {}
  /\ pc = "deleteEmptyAlbums" => Backups(dest, <<>>) = {}

\* C5: a second run after a complete one renames nothing, reports no
\* unmatched file and calls SetFile for none.
C5_SecondRunIdle ==
  run > 1 => renamed = 0 /\ reports = <<>> /\ stamped = <<>>

\* C6: every unmatched media file is reported, once, the scan goes on after
\* a miss, and the count printed before exit(1) is their number.
C6_AllReported ==
  ("fixMetaData" \in executed /\ pc \in {"fixScan", "exit1"}) =>
     LET missing == Unmatched(tmp)
     IN /\ Range(reports) = missing \ todo
        /\ Len(reports) = Cardinality(Range(reports))
        /\ pc = "exit1" =>
             /\ todo = {}
             /\ Len(reports) = Cardinality(missing)
             /\ reportedCount = Cardinality(missing)

C6_Witness ==
  /\ pc = "exit1" /\ "fixMetaData" \in executed
  /\ Len(reports) >= 2 /\ reportedCount = Len(reports)

\* C7: the sidecar path of every matched pair is the path of a file of the
\* listing, spelled as on disk, in the directory of the media file.
C7_SidecarListed ==
  \A i \in 1..Len(matches) :
    /\ matches[i].metaDataFile \in Paths(tmp)
    /\ matches[i].metaDataFile.dir = matches[i].file.dir

\* C8: a media file with an extension and without a counter in its base name
\* is never paired through the candidate "<base name>.json".
C8_NoBareBaseName ==
  \A i \in 1..Len(matches) :
    LET n    == matches[i].file.name
        ext  == ExtName(n)
    IN (ext # <<>> /\ ~HasCounter(n)) =>
          matches[i].metaDataFile.name # Truncate(BaseName(n, ext)) \o DotJson

\* A timestamp text that is a base-10 integer and nothing else.
IsInteger(ts) == ts # <<>> /\ \A k \in 1..Len(ts) : IsDigit(ts[k])

\* C9: SetFile is called only for files whose sidecar's timestamp is a
\* base-10 integer string; any other timestamp ends the run at that file.
C9_BadTimestampFatal ==
  pc \in {"fixStamp", "crashed"} =>
    \A i \in 1..Len(stamped) :
      \A f \in OpenFile(tmp, matches[i].metaDataFile) : IsInteger(f.ts)

HasMedia(files, d) ==
  \E f \in files : IsPrefix(d, f.dir) /\ ~Hidden(f.name) /\ ~EndsWith(f.name, DotJson)

\* C10: deleteEmptyAlbums deletes every subdirectory of the library without
\* a file other than dotfiles and .json files, and leaves every other
\* subdirectory in place with its files.
C10_Pruned ==
  [][pc = "deleteEmptyAlbums" =>
       \A d \in destDirs \ {<<>>} :
         IF HasMedia(dest, d)
         THEN /\ d \in destDirs'
              /\ {f \in dest' : IsPrefix(d, f.dir)} = {f \in dest : IsPrefix(d, f.dir)}
         ELSE d \notin destDirs']_vars

====
